---- MODULE Spec2Model ----
(***************************************************************************)
(* Model of pixelate (src/src/main.rs): command line validation, the       *)
(* single-file / directory driver, dimension reconciliation (crop_image),  *)
(* and the block pixelation loops of process_image with average_pixels.    *)
(* The output file name (the overwrite flag) is not part of the model: a   *)
(* save either succeeds or fails.                                          *)
(***************************************************************************)
EXTENDS Integers, Sequences, FiniteSets, TLC

\* ------------------------------------------------------------------ bounds
\* Largest width / height of a decoded input image.
MaxDim == 8
\* Largest number of entries a directory listing yields.
MaxFiles == 2
\* Largest scale_factor value given on the command line.
MaxScaleArg == 9

\* --------------------------------------------------------- program constants
\* main.rs:55  scale_factor < 2 || scale_factor > 8
MinScale == 2
MaxScale == 8
\* u8 arithmetic wraps modulo 2^8 (scale_factor : u8, main.rs:13)
U8Mod == 256
\* alpha read back from an 8-bit RGB buffer (new_rgb8, main.rs:197)
OpaqueAlpha == 255

VARIABLES
    pc,              \* position of main / process_image
    scale_factor,    \* arguments.scale_factor
    keep_dimensions, \* arguments.keep_dimensions || arguments.all
    force_crop,      \* arguments.force_crop || arguments.all
    centre,          \* arguments.centre || arguments.all
    pathKind,        \* what fs::metadata(&path) finds
    error_response,  \* ErrorResponse passed to process_image
    remaining,       \* entries the read_dir iterator has still to yield
    decoded,         \* the image as decoded from the file
    image,           \* the local `image` of process_image
    cropCalled,      \* crop_image was invoked for the current image
    cropRect,        \* arguments crop_image passed to image.crop
    new_image,       \* the local `new_image` of process_image
    outcome,         \* how process_image ended for the current image
    logged,          \* log(...) printed an ERROR line for the current image
    saved,           \* new_image.save(...) wrote the output of the current image
    error            \* message of command.error(...).exit(), "" if none

vars == <<pc, scale_factor, keep_dimensions, force_crop, centre, pathKind,
          error_response, remaining, decoded, image, cropCalled, cropRect,
          new_image, outcome, logged, saved, error>>

\* ------------------------------------------------------------------ images
Coords(w, h) == (0 .. w - 1) \X (0 .. h - 1)

NoImage == [fmt |-> "none", w |-> 0, h |-> 0, px |-> <<>>]
NoRect == [x |-> 0, y |-> 0, w |-> 0, h |-> 0]

Patterns == {"mixed", "uniform", "tiles"}

RedTable == <<255, 255, 1, 0>>

\* Pixel contents of the decoded inputs that are explored.
Pix(pat, x, y) ==
    CASE pat = "mixed" ->
            <<RedTable[2 * (x % 2) + (y % 2) + 1],
              (90 * (x \div 2)) % U8Mod,
              (7 * (y \div 2)) % U8Mod,
              255 - 100 * (((x \div 2) + (y \div 2)) % 2)>>
      [] pat = "uniform" -> <<255, 100, 50, 128>>
      [] OTHER -> <<(60 * (x \div 2) + 1) % U8Mod, (45 * (y \div 2) + 2) % U8Mod, 9, 255>>

\* A decoded image, as image.get_pixel presents it: RGBA, 8 bits a channel.
Decoded(w, h, pat) ==
    [fmt |-> "rgba8", w |-> w, h |-> h,
     px |-> [p \in Coords(w, h) |-> Pix(pat, p[1], p[2])]]

InputImages == { Decoded(w, h, pat) : w \in 1 .. MaxDim, h \in 1 .. MaxDim, pat \in Patterns }

\* image.get_pixel(x, y): RGBA; an RGB buffer reads back with full alpha.
InBounds(img, x, y) == x >= 0 /\ x < img.w /\ y >= 0 /\ y < img.h

get_pixel(img, x, y) ==
    IF img.fmt = "rgb8"
    THEN <<img.px[<<x, y>>][1], img.px[<<x, y>>][2], img.px[<<x, y>>][3], OpaqueAlpha>>
    ELSE img.px[<<x, y>>]

\* image::DynamicImage::new_rgb8(w, h): zeroed, three channels a pixel.
new_rgb8(w, h) ==
    [fmt |-> "rgb8", w |-> w, h |-> h, px |-> [p \in Coords(w, h) |-> <<0, 0, 0>>]]

\* pixel.to_rgb(): the alpha channel is dropped.
to_rgb(pixel) == <<pixel[1], pixel[2], pixel[3]>>

\* new_image.put_pixel(x, y, pixel) on an RGB buffer stores pixel.to_rgb().
put_pixel(img, x, y, pixel) ==
    [img EXCEPT !.px = [@ EXCEPT ![<<x, y>>] = to_rgb(pixel)]]

Min(a, b) == IF a < b THEN a ELSE b

\* image.crop(x, y, width, height): the rectangle is clamped to the image and
\* the sub-region copied out.
crop(img, x, y, width, height) ==
    LET cx == Min(x, img.w)
        cy == Min(y, img.h)
        ch == Min(height, img.h - cy)
        cw == Min(width, img.w - cx)
    IN  [fmt |-> img.fmt, w |-> cw, h |-> ch,
         px |-> [p \in Coords(cw, ch) |-> img.px[<<cx + p[1], cy + p[2]>>]]]

\* ------------------------------------------------------------ crop_image
\* width - (width % scale_factor as u32)
CropSize(dim, sf) == dim - (dim % sf)

\* Mutant of CropOffset: the whole remainder is cut from the left / top.
CropOffsetNoHalf(dim, new_dim, c) == IF c THEN dim - new_dim ELSE 0

\* (width - new_width) / 2 when centring, otherwise 0
CropOffset(dim, new_dim, c) == IF c THEN (dim - new_dim) \div 2 ELSE 0

\* The rectangle crop_image hands to image.crop.
crop_rect(img, sf, c) ==
    LET new_width == CropSize(img.w, sf)
        new_height == CropSize(img.h, sf)
    IN  [x |-> CropOffset(img.w, new_width, c),
         y |-> CropOffset(img.h, new_height, c),
         w |-> new_width, h |-> new_height]

crop_image(img, sf, c) ==
    LET r == crop_rect(img, sf, c) IN crop(img, r.x, r.y, r.w, r.h)

\* Mutant of NotDivisible: only the width is tested.
NotDivisibleWidthOnly(width, height, sf) == width % sf # 0

\* width % scale_factor != 0 || height % scale_factor != 0
NotDivisible(width, height, sf) == width % sf # 0 \/ height % sf # 0

\* --------------------------------------------------------- average_pixels
AddPixels(p, q) == <<p[1] + q[1], p[2] + q[2], p[3] + q[3], p[4] + q[4]>>

RECURSIVE ChannelSums(_, _, _)
\* for pixel in pixels { red += pixel[0] as u32; green += ..; blue += ..; alpha += .. }
\* restricted to the entries lo .. hi - 1; the u32 sums (at most 2^8 * 255) are
\* added up by halves, which gives the sums of the loop.
ChannelSums(pixels, lo, hi) ==
    IF hi <= lo THEN <<0, 0, 0, 0>>
    ELSE IF hi = lo + 1 THEN pixels[lo]
    ELSE AddPixels(ChannelSums(pixels, lo, (lo + hi) \div 2),
                   ChannelSums(pixels, (lo + hi) \div 2, hi))

\* (sum / pixel_count) as u8
ChannelMean(sum, pixel_count) == (sum \div pixel_count) % U8Mod

\* average_pixels(&pixels), pixels.len() = len
average_pixels(pixels, len) ==
    LET sums == ChannelSums(pixels, 0, len)
    IN  <<ChannelMean(sums[1], len), ChannelMean(sums[2], len),
          ChannelMean(sums[3], len), ChannelMean(sums[4], len)>>

\* ------------------------------------------------- the pixelation loops
\* u8 arithmetic of a release build: the result wraps.
U8Mul(a, b) == (a * b) % U8Mod
U8Add(a, b) == (a + b) % U8Mod

\* (scale_factor * scale_factor) as usize
PixelsLen(sf) == U8Mul(sf, sf)

\* (i * scale_factor + j) as usize
PixelIndex(i, j, sf) == U8Add(U8Mul(i, sf), j)

\* Mutant of SrcCoord: off by one.
SrcCoordOffByOne(b, i, sf) == b * sf + i + 1

\* x * (scale_factor as u32) + i as u32
SrcCoord(b, i, sf) == b * sf + i

\* Some u8 operation of the loops leaves 0..255 (a debug build panics there).
U8Overflow(sf) ==
    \/ sf * sf >= U8Mod
    \/ \E i, j \in 0 .. sf - 1 : i * sf >= U8Mod \/ U8Mul(i, sf) + j >= U8Mod

\* The (i, j) turns of `for i in 0..scale_factor { for j in 0..scale_factor`,
\* numbered in the order they run: turn k is i = k / sf, j = k % sf.
Turns(sf) == 0 .. sf * sf - 1
TurnI(k, sf) == k \div sf
TurnJ(k, sf) == k % sf

Last(S) == CHOOSE k \in S : \A m \in S : m <= k

\* vec![Rgba([0, 0, 0, 0]); len], then pixels[(i * sf + j)] = image.get_pixel(..)
\* for every turn: an entry holds what the last turn stored there, or zero.
BlockPixels(img, x, y, sf) ==
    [n \in 0 .. PixelsLen(sf) - 1 |->
        LET stores == { k \in Turns(sf) : PixelIndex(TurnI(k, sf), TurnJ(k, sf), sf) = n }
        IN  IF stores = {} THEN <<0, 0, 0, 0>>
            ELSE get_pixel(img, SrcCoord(x, TurnI(Last(stores), sf), sf),
                                SrcCoord(y, TurnJ(Last(stores), sf), sf))]

\* new_image.put_pixel(x * sf + i, y * sf + j, pixel) for every turn: the same
\* pixel at every position that is written.
Fill(out, x, y, sf, pixel) ==
    LET written == { <<SrcCoord(x, TurnI(k, sf), sf), SrcCoord(y, TurnJ(k, sf), sf)>> :
                        k \in Turns(sf) }
    IN  [out EXCEPT !.px = [p \in DOMAIN @ |->
                              IF p \in written THEN to_rgb(pixel)
                              ELSE @[p]]]

\* The body of the two outer loops for block (x, y).
BlockStep(out, img, x, y, sf, keep) ==
    IF keep
    THEN Fill(out, x, y, sf, average_pixels(BlockPixels(img, x, y, sf), PixelsLen(sf)))
    ELSE put_pixel(out, x, y, get_pixel(img, SrcCoord(x, 0, sf), SrcCoord(y, 0, sf)))

RECURSIVE Blocks(_, _, _, _, _, _, _)
\* for x in 0..new_width { for y in 0..new_height { .. } }: the buffer after the
\* first k turns (turn k - 1 is x = (k-1) / new_height, y = (k-1) % new_height)
Blocks(out, img, sf, keep, new_width, new_height, k) ==
    IF k = 0 THEN out
    ELSE BlockStep(Blocks(out, img, sf, keep, new_width, new_height, k - 1),
                   img, (k - 1) \div new_height, (k - 1) % new_height, sf, keep)

\* The coordinates the loops read from the input, and write to the output.
ReadCoords(sf, keep, new_width, new_height) ==
    { <<SrcCoord(x, i, sf), SrcCoord(y, j, sf)>> :
        x \in 0 .. new_width - 1, y \in 0 .. new_height - 1,
        i \in (IF keep THEN 0 .. sf - 1 ELSE {0}),
        j \in (IF keep THEN 0 .. sf - 1 ELSE {0}) }

WriteCoords(sf, keep, new_width, new_height) ==
    IF keep THEN ReadCoords(sf, keep, new_width, new_height)
    ELSE (0 .. new_width - 1) \X (0 .. new_height - 1)

\* The indices the loops use into the pixels vector.
VecIndices(sf, keep) ==
    IF keep THEN { PixelIndex(i, j, sf) : i, j \in 0 .. sf - 1 } ELSE {}

\* A run-time check of the loops fails: an image access outside its buffer,
\* a vector index outside the vector, a division by a zero pixel count, or
\* (debug build) a u8 overflow.
LoopPanics(img, out, sf, keep, new_width, new_height, build) ==
    /\ new_width * new_height > 0
    /\ \/ \E p \in ReadCoords(sf, keep, new_width, new_height) : ~InBounds(img, p[1], p[2])
       \/ \E p \in WriteCoords(sf, keep, new_width, new_height) : ~InBounds(out, p[1], p[2])
       \/ \E n \in VecIndices(sf, keep) : n >= PixelsLen(sf)
       \/ keep /\ PixelsLen(sf) = 0
       \/ keep /\ build = "debug" /\ U8Overflow(sf)

\* Mutant of OutputBuffer: the keep_dimensions flag is ignored.
OutputBufferShrunk(keep, width, height, new_width, new_height) ==
    new_rgb8(new_width, new_height)

\* new_image as allocated before the loops
OutputBuffer(keep, width, height, new_width, new_height) ==
    IF keep THEN new_rgb8(width, height) ELSE new_rgb8(new_width, new_height)

\* --------------------------------------------------------------- the run
Init ==
    /\ pc = "start"
    /\ scale_factor \in 0 .. MaxScaleArg
    /\ \E k, f, c, all \in BOOLEAN :
          /\ keep_dimensions = (k \/ all)
          /\ force_crop = (f \/ all)
          /\ centre = (c \/ all)
    /\ pathKind \in {"missing", "file", "dir", "other"}
    /\ error_response = "Exit"
    /\ remaining = 0
    /\ decoded = NoImage
    /\ image = NoImage
    /\ cropCalled = FALSE
    /\ cropRect = NoRect
    /\ new_image = NoImage
    /\ outcome = "none"
    /\ logged = FALSE
    /\ saved = FALSE
    /\ error = ""

\* scale_factor < 2 || scale_factor > 8
InvalidScale(sf) == sf < MinScale \/ sf > MaxScale

\* command.error(kind, message).exit()
Exit(message) == pc' = "exit" /\ error' = message

\* A panic: the process aborts where it stands.
Panic(where) == pc' = "panic" /\ error' = where

\* Mutant of Fail: the error response is ignored and the process always exits.
FailExit(response, what, message) ==
    outcome' = what /\ Exit(message) /\ logged' = logged

\* A failure inside process_image: exit the process, or log and return.
Fail(response, what, message) ==
    /\ outcome' = what
    /\ IF response = "Exit"
       THEN Exit(message) /\ logged' = logged
       ELSE pc' = "returned" /\ logged' = TRUE /\ error' = error

\* main: the scale factor check
ValidateScale ==
    /\ pc = "start"
    /\ IF InvalidScale(scale_factor)
       THEN Exit("scale factor must be between 2 and 8")
       ELSE pc' = "stat" /\ error' = error
    /\ UNCHANGED <<scale_factor, keep_dimensions, force_crop, centre, pathKind,
                   error_response, remaining, decoded, image, cropCalled, cropRect,
                   new_image, outcome, logged, saved>>

\* main: fs::metadata, then the file / directory branch up to the loop head
StatPath ==
    /\ pc = "stat"
    /\ \/ /\ pathKind = "missing"
          /\ Exit("could not open file")
          /\ UNCHANGED <<error_response, remaining>>
       \/ /\ pathKind = "file"
          /\ pc' = "open"
          /\ error_response' = "Exit"
          /\ UNCHANGED <<remaining, error>>
       \/ /\ pathKind = "dir"
          /\ \/ /\ Exit("could not read directory")
                /\ UNCHANGED <<error_response, remaining>>
             \/ /\ pc' = "loop"
                /\ error_response' = "Ignore"
                /\ remaining' \in 0 .. MaxFiles
                /\ error' = error
       \/ /\ pathKind = "other"
          /\ pc' = "done"
          /\ UNCHANGED <<error_response, remaining, error>>
    /\ UNCHANGED <<scale_factor, keep_dimensions, force_crop, centre, pathKind,
                   decoded, image, cropCalled, cropRect, new_image, outcome,
                   logged, saved>>

\* main: one turn of `for path in paths`, up to the call of process_image
NextEntry ==
    /\ pc = "loop"
    /\ IF remaining = 0
       THEN pc' = "done" /\ UNCHANGED <<remaining, error>>
       ELSE /\ remaining' = remaining - 1
            /\ \E entry \in {"error", "file", "notfile"} :
                  CASE entry = "error" -> Exit("could not read directory")
                    [] entry = "file" -> pc' = "open" /\ error' = error
                    [] OTHER -> pc' = "loop" /\ error' = error
    /\ UNCHANGED <<scale_factor, keep_dimensions, force_crop, centre, pathKind,
                   error_response, decoded, image, cropCalled, cropRect, new_image,
                   outcome, logged, saved>>

\* process_image: ImageReader::open(&path) and file.decode()
OpenDecode ==
    /\ pc = "open"
    /\ \/ /\ Fail(error_response, "OpenFailed", "could not open file")
          /\ UNCHANGED <<decoded, image>>
       \/ /\ Fail(error_response, "DecodeFailed", "could not decode image")
          /\ UNCHANGED <<decoded, image>>
       \/ /\ \E img \in InputImages : decoded' = img /\ image' = img
          /\ pc' = "reconcile"
          /\ UNCHANGED <<outcome, logged, error>>
    /\ UNCHANGED <<scale_factor, keep_dimensions, force_crop, centre, pathKind,
                   error_response, remaining, cropCalled, cropRect, new_image, saved>>

\* Mutant of Reconcile: force_crop is tested before divisibility, so every
\* image is cropped when the flag is set.
ReconcileCropFirst ==
    /\ pc = "reconcile"
    /\ IF force_crop
       THEN /\ image' = crop_image(image, scale_factor, centre)
            /\ cropRect' = crop_rect(image, scale_factor, centre)
            /\ cropCalled' = TRUE
            /\ pc' = "pixelate"
            /\ UNCHANGED <<outcome, logged, error>>
       ELSE IF NotDivisible(image.w, image.h, scale_factor)
            THEN /\ Fail(error_response, "NotDivisible",
                         "image dimensions must be divisible by scale factor")
                 /\ UNCHANGED <<image, cropCalled, cropRect>>
            ELSE /\ pc' = "pixelate"
                 /\ UNCHANGED <<image, cropCalled, cropRect, outcome, logged, error>>
    /\ UNCHANGED <<scale_factor, keep_dimensions, force_crop, centre, pathKind,
                   error_response, remaining, decoded, new_image, saved>>

\* process_image: the divisibility check and the optional crop
Reconcile ==
    /\ pc = "reconcile"
    /\ IF NotDivisible(image.w, image.h, scale_factor)
       THEN IF ~force_crop
            THEN /\ Fail(error_response, "NotDivisible",
                         "image dimensions must be divisible by scale factor")
                 /\ UNCHANGED <<image, cropCalled, cropRect>>
            ELSE /\ image' = crop_image(image, scale_factor, centre)
                 /\ cropRect' = crop_rect(image, scale_factor, centre)
                 /\ cropCalled' = TRUE
                 /\ pc' = "pixelate"
                 /\ UNCHANGED <<outcome, logged, error>>
       ELSE /\ pc' = "pixelate"
            /\ UNCHANGED <<image, cropCalled, cropRect, outcome, logged, error>>
    /\ UNCHANGED <<scale_factor, keep_dimensions, force_crop, centre, pathKind,
                   error_response, remaining, decoded, new_image, saved>>

\* process_image: allocation of new_image and the pixelation loops
Pixelate ==
    /\ pc = "pixelate"
    /\ LET width == image.w
           height == image.h
           new_width == width \div scale_factor
           new_height == height \div scale_factor
           buffer == OutputBuffer(keep_dimensions, width, height, new_width, new_height)
       IN  \E build \in {"debug", "release"} :
              IF LoopPanics(image, buffer, scale_factor, keep_dimensions,
                            new_width, new_height, build)
              THEN /\ Panic("pixelation loop")
                   /\ new_image' = buffer
              ELSE /\ pc' = "save"
                   /\ new_image' = Blocks(buffer, image, scale_factor, keep_dimensions,
                                          new_width, new_height,
                                          new_width * new_height)
                   /\ error' = error
    /\ UNCHANGED <<scale_factor, keep_dimensions, force_crop, centre, pathKind,
                   error_response, remaining, decoded, image, cropCalled, cropRect,
                   outcome, logged, saved>>

\* process_image: the output file name and new_image.save(...)
Save ==
    /\ pc = "save"
    /\ \/ /\ Panic("file name")    \* file_name().unwrap().to_str().unwrap()
          /\ UNCHANGED <<outcome, logged, saved>>
       \/ /\ pc' = "returned"
          /\ outcome' = "Saved"
          /\ saved' = TRUE
          /\ UNCHANGED <<logged, error>>
       \/ /\ Fail(error_response, "SaveFailed", "could not save image")
          /\ saved' = saved
    /\ UNCHANGED <<scale_factor, keep_dimensions, force_crop, centre, pathKind,
                   error_response, remaining, decoded, image, cropCalled, cropRect,
                   new_image>>

\* process_image has returned to main: `return` (file) or the next loop turn
Return ==
    /\ pc = "returned"
    /\ pc' = IF error_response = "Exit" THEN "done" ELSE "loop"
    /\ decoded' = NoImage
    /\ image' = NoImage
    /\ cropCalled' = FALSE
    /\ cropRect' = NoRect
    /\ new_image' = NoImage
    /\ outcome' = "none"
    /\ logged' = FALSE
    /\ saved' = FALSE
    /\ UNCHANGED <<scale_factor, keep_dimensions, force_crop, centre, pathKind,
                   error_response, remaining, error>>

Next ==
    \/ ValidateScale
    \/ StatPath
    \/ NextEntry
    \/ OpenDecode
    \/ Reconcile
    \/ Pixelate
    \/ Save
    \/ Return

Spec == Init /\ [][Next]_vars

\* ============================================================== claims
Failures == {"OpenFailed", "DecodeFailed", "NotDivisible", "SaveFailed"}

\* An image has been decoded for the current file.
HasImage == decoded # NoImage

\* The decoded image needs no crop for the scale factor.
DecodedDivisible == decoded.w % scale_factor = 0 /\ decoded.h % scale_factor = 0

RECURSIVE RowSum(_, _, _, _, _)
\* Sum of channel c over the n pixels (x0, y), .., (x0 + n - 1, y).
RowSum(img, x0, y, n, c) ==
    IF n = 0 THEN 0 ELSE RowSum(img, x0, y, n - 1, c) + img.px[<<x0 + n - 1, y>>][c]

RECURSIVE BlockSum(_, _, _, _, _, _)
\* Sum of channel c over the first m rows of the sf-wide block at (x0, y0).
BlockSum(img, x0, y0, sf, m, c) ==
    IF m = 0 THEN 0
    ELSE BlockSum(img, x0, y0, sf, m - 1, c) + RowSum(img, x0, y0 + m - 1, sf, c)

\* floor(sum over the block / scale_factor^2), channel c of block (bx, by).
FloorMean(img, bx, by, sf, c) ==
    BlockSum(img, bx * sf, by * sf, sf, sf, c) \div (sf * sf)

\* Every sf x sf block of img consists of identical pixels.
BlockUniform(img, sf) ==
    \A p \in Coords(img.w, img.h) :
        img.px[p] = img.px[<<(p[1] \div sf) * sf, (p[2] \div sf) * sf>>]

\* ---- C4
\* C4: an image whose width or height is not divisible by scale_factor, with
\* force_crop off, ends in the NotDivisible failure (process exit for a single
\* file, a logged skip in a directory), and neither an output buffer nor an
\* output file exists for it.
C4_NotDivisibleFails ==
    (HasImage /\ ~DecodedDivisible /\ ~force_crop /\ pc # "reconcile")
        => /\ outcome = "NotDivisible"
           /\ new_image = NoImage
           /\ ~saved
           /\ ~cropCalled
           /\ IF error_response = "Exit"
              THEN pc = "exit" /\ error # ""
              ELSE pc = "returned" /\ logged

C4_Witness ==
    /\ pc = "returned" /\ outcome = "NotDivisible" /\ error_response = "Ignore"
    /\ scale_factor = 2 /\ decoded.w = 5 /\ decoded.h = 4

\* ---- C5
\* C5: when a non-divisible image is cropped, the rectangle is as wide and high
\* as the largest multiples of scale_factor not above the original sizes, it
\* starts at (0, 0) without centre and at the floored half remainders with
\* centre, it lies inside the original image, and the cropped image has
\* exactly the rectangle's size.
C5_CropRect ==
    (HasImage /\ ~DecodedDivisible /\ force_crop /\ pc # "reconcile")
        => /\ cropCalled
           /\ cropRect.w = decoded.w - (decoded.w % scale_factor)
           /\ cropRect.h = decoded.h - (decoded.h % scale_factor)
           /\ cropRect.w % scale_factor = 0 /\ cropRect.h % scale_factor = 0
           /\ cropRect.w <= decoded.w /\ decoded.w < cropRect.w + scale_factor
           /\ cropRect.h <= decoded.h /\ decoded.h < cropRect.h + scale_factor
           /\ cropRect.x = (IF centre THEN (decoded.w - cropRect.w) \div 2 ELSE 0)
           /\ cropRect.y = (IF centre THEN (decoded.h - cropRect.h) \div 2 ELSE 0)
           /\ cropRect.x + cropRect.w <= decoded.w
           /\ cropRect.y + cropRect.h <= decoded.h
           /\ image.w = cropRect.w /\ image.h = cropRect.h
           /\ \A p \in Coords(image.w, image.h) :
                 image.px[p] = decoded.px[<<cropRect.x + p[1], cropRect.y + p[2]>>]

C5_Witness ==
    /\ pc = "pixelate" /\ cropCalled /\ centre
    /\ cropRect.x > 0 /\ cropRect.y > 0 /\ cropRect.w > 0 /\ cropRect.h > 0
    /\ cropRect.w # cropRect.h

\* ---- C6
\* C6: an image whose width and height are both divisible by scale_factor is
\* never cropped, whatever force_crop and centre are: crop_image is not
\* invoked and the image handed to pixelation is the decoded one.
C6_DivisibleUnchanged ==
    (HasImage /\ DecodedDivisible)
        => /\ ~cropCalled
           /\ cropRect = NoRect
           /\ image = decoded
           /\ outcome # "NotDivisible"

C6_Witness ==
    /\ pc = "pixelate" /\ force_crop /\ centre /\ ~cropCalled
    /\ scale_factor = 2 /\ image.w = 4 /\ image.h = 6

\* ---- C7
\* C7: the output buffer is (w / scale_factor) x (h / scale_factor) in Shrink
\* mode and w x h in KeepDimensions mode, w x h being the size of the image
\* after the crop, if one happened.
C7_OutputDimensions ==
    (new_image # NoImage)
        => /\ image.w % scale_factor = 0 /\ image.h % scale_factor = 0
           /\ cropCalled => (image.w = cropRect.w /\ image.h = cropRect.h)
           /\ new_image.w = (IF keep_dimensions THEN image.w ELSE image.w \div scale_factor)
           /\ new_image.h = (IF keep_dimensions THEN image.h ELSE image.h \div scale_factor)
           /\ DOMAIN new_image.px = Coords(new_image.w, new_image.h)

C7_Witness ==
    /\ pc = "save" /\ cropCalled /\ keep_dimensions
    /\ image.w < decoded.w /\ image.h < decoded.h
    /\ new_image.w = image.w /\ new_image.h = image.h
    /\ new_image.w > new_image.h /\ new_image.h > 0

\* ---- C1
\* C1: in Shrink mode the output pixel of block (bx, by) is the per-channel
\* floor mean of the scale_factor x scale_factor source pixels of the block.
C1_ShrinkIsBlockMean ==
    (pc = "save" /\ ~keep_dimensions)
        => \A bx \in 0 .. (image.w \div scale_factor) - 1 :
           \A by \in 0 .. (image.h \div scale_factor) - 1 :
           \A c \in 1 .. 4 :
               get_pixel(new_image, bx, by)[c] = FloorMean(image, bx, by, scale_factor, c)

\* What Shrink mode does: the output pixel of block (bx, by) carries the red,
\* green and blue of the block's top-left source pixel.
ShrinkIsTopLeftSample ==
    (pc = "save" /\ ~keep_dimensions)
        => \A bx \in 0 .. (image.w \div scale_factor) - 1 :
           \A by \in 0 .. (image.h \div scale_factor) - 1 :
               new_image.px[<<bx, by>>] =
                   to_rgb(image.px[<<bx * scale_factor, by * scale_factor>>])

\* ---- C2
\* C2: in KeepDimensions mode every output position of block (bx, by) holds the
\* per-channel floor mean of the block's source pixels, in all four channels.
C2_KeepIsBlockMean ==
    (pc = "save" /\ keep_dimensions)
        => /\ new_image.w = image.w /\ new_image.h = image.h
           /\ \A p \in Coords(image.w, image.h) :
              \A c \in 1 .. 4 :
                  get_pixel(new_image, p[1], p[2])[c] =
                      FloorMean(image, p[1] \div scale_factor, p[2] \div scale_factor,
                                scale_factor, c)

\* What KeepDimensions mode does: red, green and blue are the floor means, and
\* the output carries no alpha (it reads back as fully opaque).
KeepRgbIsBlockMean ==
    (pc = "save" /\ keep_dimensions)
        => \A p \in Coords(image.w, image.h) :
              /\ \A c \in 1 .. 3 :
                    new_image.px[p][c] =
                        FloorMean(image, p[1] \div scale_factor, p[2] \div scale_factor,
                                  scale_factor, c)
              /\ get_pixel(new_image, p[1], p[2])[4] = OpaqueAlpha

\* ---- C3
\* C3: when the crop leaves a width or height of 0, the image fails with
\* ImageTooSmall and no zero-sized output is produced or saved.
C3_TooSmallFails ==
    (cropCalled /\ (cropRect.w = 0 \/ cropRect.h = 0))
        => /\ outcome = "ImageTooSmall"
           /\ new_image = NoImage
           /\ ~saved

FixedPointRgb ==
    (pc = "save" /\ keep_dimensions /\ BlockUniform(image, scale_factor))
        => \A p \in Coords(image.w, image.h) : new_image.px[p] = to_rgb(image.px[p])

\* ---- C9
\* A step in which process_image fails for the current image.
FailureStep == outcome = "none" /\ outcome' \in Failures

\* C9: under ErrorResponse::Ignore (directory mode) a failing image is logged
\* and skipped: control returns to the loop with the entries still to come
\* untouched, and the loop ends normally only when no entry is left. Under
\* ErrorResponse::Exit (single file) the failure ends the process at once and
\* nothing has been saved.
C9_ErrorDisposition ==
    /\ [][ /\ (FailureStep /\ error_response = "Ignore")
               => /\ pc' = "returned" /\ logged' /\ ~saved'
                  /\ remaining' = remaining /\ error' = ""
           /\ (FailureStep /\ error_response = "Exit")
               => pc' = "exit" /\ error' # "" /\ ~saved'
           /\ (pc = "returned" /\ error_response = "Ignore") => pc' = "loop"
           /\ (pc = "loop" /\ remaining > 0)
               => remaining' = remaining - 1 /\ pc' \in {"open", "loop", "exit"}
           /\ (pc = "loop" /\ pc' = "done") => remaining = 0
           /\ (pc = "loop" /\ pc' = "exit") => error' = "could not read directory"
         ]_vars
    /\ [](pc \in {"open", "reconcile", "pixelate", "save", "returned", "loop"}
            => (error_response = "Ignore" <=> pathKind = "dir"))
    /\ []((pc = "done" /\ pathKind = "dir") => remaining = 0)

C9_Witness ==
    /\ pc = "returned" /\ error_response = "Ignore" /\ logged
    /\ outcome = "SaveFailed" /\ remaining >= 1

\* ---- C10
\* C10: for every accepted scale factor and every image that reaches the
\* loops, the u8 products and indices stay within 0..255 and inside the pixel
\* vector, every coordinate read or written lies inside its buffer, every
\* averaged channel fits 8 bits, and so the loops never panic.
C10_NoOverflowNoOutOfRange ==
    /\ error # "pixelation loop"
    /\ pc = "pixelate" =>
        LET sf == scale_factor
            new_width == image.w \div sf
            new_height == image.h \div sf
            out == OutputBuffer(keep_dimensions, image.w, image.h, new_width, new_height)
        IN  /\ sf \in MinScale .. MaxScale
            /\ sf * sf <= 255 /\ PixelsLen(sf) = sf * sf
            /\ \A i, j \in 0 .. sf - 1 :
                  /\ i * sf + j <= 255
                  /\ PixelIndex(i, j, sf) = i * sf + j
                  /\ PixelIndex(i, j, sf) < PixelsLen(sf)
            /\ ~U8Overflow(sf)
            /\ \A p \in ReadCoords(sf, keep_dimensions, new_width, new_height) :
                  InBounds(image, p[1], p[2])
            /\ \A p \in WriteCoords(sf, keep_dimensions, new_width, new_height) :
                  InBounds(out, p[1], p[2])
            /\ \A x \in 0 .. new_width - 1 : \A y \in 0 .. new_height - 1 :
               \A c \in 1 .. 4 :
                  /\ BlockSum(image, x * sf, y * sf, sf, sf, c) \div (sf * sf) \in 0 .. 255
                  /\ keep_dimensions =>
                        average_pixels(BlockPixels(image, x, y, sf), PixelsLen(sf))[c]
                            = FloorMean(image, x, y, sf, c)

C10_Witness ==
    /\ pc = "save" /\ keep_dimensions /\ scale_factor = MaxScale
    /\ image.w = 8 /\ image.h = 8 /\ new_image.w = 8

====
